---------------------------- MODULE Spec2Model ----------------------------
(***************************************************************************)
(* A model of emoji.py (emoji_utils): the vocabulary table EMOJI_MAP, its  *)
(* derived index REVERSE_MAP, and the four core functions                  *)
(* shortcode_to_emoji, emoji_to_shortcode, list_shortcodes, random_emoji.  *)
(*                                                                         *)
(* A Python str is modelled as the sequence of its Unicode code points     *)
(* (naturals): indexing, slicing, str.replace, the regular expression and  *)
(* the ordering of str all work on code points.  A dict is modelled as the *)
(* sequence of its (key, value) pairs in insertion order, which is the     *)
(* order dict.items(), dict.keys() and dict.values() iterate in.           *)
(***************************************************************************)
EXTENDS Integers, Sequences, FiniteSets, TLC

VARIABLES
    EMOJI_MAP,    \* module global: the (shortcode, emoji) pairs, in insertion order
    REVERSE_MAP,  \* module global: the (emoji, shortcode) pairs, in insertion order
    pc,           \* per caller: "idle", or "loop" inside emoji_to_shortcode's for loop
    text,         \* per caller: the text the caller supplies
    count,        \* per caller: the count the caller supplies to random_emoji
    calls,        \* per caller: the calls completed so far, oldest first
    arg,          \* per caller: the argument of the last substitution call
    out,          \* per caller: the str returned by the last substitution call
    items,        \* per caller: the list returned by the last list/random call
    result,       \* per caller: emoji_to_shortcode's local `result`
    idx           \* per caller: position of the for loop in REVERSE_MAP.items()

vars == << EMOJI_MAP, REVERSE_MAP, pc, text, count, calls, arg, out, items, result, idx >>

(***************************************************************************)
(* Bounds of the model.                                                    *)
(***************************************************************************)
\* Input texts are concatenations of at most MaxPieces fragments of Pieces.
MaxPieces == 3
\* A sequential caller makes at most MaxCalls calls, feeding each substitution
\* the result of the one before.
MaxCalls == 2
\* random_emoji is called with counts in -1 .. MaxCount.
MaxCount == 2
\* Number of callers that run interleaved in SpecConc.
NumCallers == 2

(***************************************************************************)
(* The vocabulary: the dict literal of lines 28-50.                        *)
(***************************************************************************)
EmojiMapLiteral ==
    << << <<115, 109, 105, 108, 101>>, <<128516>> >>,                       \* 29: "smile" -> U+1F604
       << <<103, 114, 105, 110>>, <<128513>> >>,                            \* 30: "grin" -> U+1F601
       << <<106, 111, 121>>, <<128514>> >>,                                 \* 31: "joy" -> U+1F602
       << <<116, 104, 117, 109, 98, 115, 117, 112>>, <<128077>> >>,         \* 32: "thumbsup" -> U+1F44D
       << <<116, 104, 117, 109, 98, 115, 100, 111, 119, 110>>, <<128078>> >>, \* 33: "thumbsdown" -> U+1F44E
       << <<104, 101, 97, 114, 116>>, <<10084, 65039>> >>,                  \* 34: "heart" -> U+2764 U+FE0F
       << <<115, 112, 97, 114, 107, 108, 101, 115>>, <<10024>> >>,          \* 35: "sparkles" -> U+2728
       << <<102, 105, 114, 101>>, <<128293>> >>,                            \* 36: "fire" -> U+1F525
       << <<115, 116, 97, 114>>, <<11088>> >>,                              \* 37: "star" -> U+2B50
       << <<49, 48, 48>>, <<128175>> >>,                                    \* 38: "100" -> U+1F4AF
       << <<99, 104, 101, 99, 107>>, <<9989>> >>,                           \* 39: "check" -> U+2705
       << <<120>>, <<10060>> >>,                                            \* 40: "x" -> U+274C
       << <<114, 111, 99, 107, 101, 116>>, <<128640>> >>,                   \* 41: "rocket" -> U+1F680
       << <<112, 97, 114, 116, 121>>, <<129395>> >>,                        \* 42: "party" -> U+1F973
       << <<116, 104, 105, 110, 107, 105, 110, 103>>, <<129300>> >>,        \* 43: "thinking" -> U+1F914
       << <<115, 111, 98>>, <<128557>> >>,                                  \* 44: "sob" -> U+1F62D
       << <<112, 114, 97, 121>>, <<128591>> >>,                             \* 45: "pray" -> U+1F64F
       << <<111, 107, 95, 104, 97, 110, 100>>, <<128076>> >>,               \* 46: "ok_hand" -> U+1F44C
       << <<99, 108, 97, 112>>, <<128079>> >>,                              \* 47: "clap" -> U+1F44F
       << <<119, 97, 118, 101>>, <<128075>> >>,                             \* 48: "wave" -> U+1F44B
       << <<116, 97, 100, 97>>, <<127881>> >> >>                            \* 49: "tada" -> U+1F389

(***************************************************************************)
(* dict operations on a sequence of (key, value) pairs.                    *)
(***************************************************************************)
\* d.keys() and d.values(), in insertion order.
Keys(d) == [i \in 1..Len(d) |-> d[i][1]]
Values(d) == [i \in 1..Len(d) |-> d[i][2]]

\* key in d
HasKey(d, k) == \E i \in 1..Len(d) : d[i][1] = k

\* d[k] for a key of d
Lookup(d, k) == d[CHOOSE i \in 1..Len(d) : d[i][1] = k][2]

\* d.get(k, default)
Get(d, k, default) == IF HasKey(d, k) THEN Lookup(d, k) ELSE default

\* d[k] = v: a new key is appended, an existing key keeps its position and
\* takes the new value.
SetItem(d, k, v) ==
    IF HasKey(d, k)
    THEN [i \in 1..Len(d) |-> IF d[i][1] = k THEN << k, v >> ELSE d[i]]
    ELSE Append(d, << k, v >>)

\* {v: k for k, v in d.items()} built from the first n items of d.
RECURSIVE ReverseUpTo(_, _)
ReverseUpTo(d, n) ==
    IF n = 0 THEN << >>
    ELSE SetItem(ReverseUpTo(d, n - 1), d[n][2], d[n][1])

\* Variant: the index keyed by the first code point of each emoji,
\* {v[0]: k for k, v in d.items()}.
ReverseOfFirstChar(d) ==
    ReverseUpTo([i \in 1..Len(d) |-> << d[i][1], << d[i][2][1] >> >>], Len(d))

\* Line 53: REVERSE_MAP = {v: k for k, v in EMOJI_MAP.items()}
ReverseOf(d) == ReverseUpTo(d, Len(d))

(***************************************************************************)
(* SHORTCODE_PATTERN = re.compile(r":([a-zA-Z0-9_+-]+):") and its sub().   *)
(***************************************************************************)
\* The character ':' that delimits a token and wraps a code.
Colon == 58

\* Variant: the class written [a-zA-Z_+-], without the digits.
IsCodeCharNoDigits(ch) ==
    \/ ch \in 97..122
    \/ ch \in 65..90
    \/ ch \in {95, 43, 45}

\* The character class [a-zA-Z0-9_+-].
IsCodeChar(ch) ==
    \/ ch \in 97..122
    \/ ch \in 65..90
    \/ ch \in 48..57
    \/ ch \in {95, 43, 45}

\* The last index of the maximal run of class characters of s that starts at
\* i (i - 1 when s[i] is no class character): what the greedy `+` consumes.
RECURSIVE RunEnd(_, _)
RunEnd(s, i) ==
    IF i <= Len(s) /\ IsCodeChar(s[i]) THEN RunEnd(s, i + 1) ELSE i - 1

\* The index of the closing colon of the pattern's match that starts at i, or
\* 0 when the pattern does not match at i.  The class excludes ':', so the
\* colon can only follow the maximal run: backtracking to a shorter run finds
\* a class character where the closing colon is needed.
MatchEnd(s, i) ==
    IF i <= Len(s) /\ s[i] = Colon
    THEN LET e == RunEnd(s, i + 1)
         IN  IF e >= i + 1 /\ e + 1 <= Len(s) /\ s[e + 1] = Colon
             THEN e + 1 ELSE 0
    ELSE 0

\* Variant: the closing colon of a match is searched again, as the opening
\* colon of the next one.
ScanAfterOverlapping(j) == j

\* Where the scan goes on after a match that ends at index j: matches do not
\* overlap, the next one is searched from the character after the match.
ScanAfter(j) == j + 1

\* The matches of the pattern in s from index i on, left to right, each as
\* << start, end >>.
RECURSIVE finditer(_, _)
finditer(s, i) ==
    IF i > Len(s) THEN << >>
    ELSE LET j == MatchEnd(s, i)
         IN  IF j > 0 THEN << << i, j >> >> \o finditer(s, ScanAfter(j))
             ELSE finditer(s, i + 1)

\* Variant: an unknown code is returned as match.group(1), without its colons.
replGroupOne(d, m) ==
    LET key == SubSeq(m, 2, Len(m) - 1)
    IN  Get(d, key, key)

\* Variant: the code is looked up as key.lower().
replLower(d, m) ==
    LET key == SubSeq(m, 2, Len(m) - 1)
        lower == [i \in 1..Len(key) |->
                     IF key[i] \in 65..90 THEN key[i] + 32 ELSE key[i]]
    IN  Get(d, lower, m)

\* Lines 64-66: repl(match), with m the matched span match.group(0);
\* match.group(1) is m without its two colons.
repl(d, m) ==
    LET key == SubSeq(m, 2, Len(m) - 1)
    IN  Get(d, key, m)

\* pattern.sub(repl, s): the text between the matches is copied, each match
\* is replaced by repl(match).  ms are the matches left, from the index
\* `from` of s on.
RECURSIVE Splice(_, _, _, _)
Splice(d, s, ms, from) ==
    IF ms = << >> THEN SubSeq(s, from, Len(s))
    ELSE LET m == Head(ms)
         IN  SubSeq(s, from, m[1] - 1)
               \o repl(d, SubSeq(s, m[1], m[2]))
               \o Splice(d, s, Tail(ms), m[2] + 1)

\* Lines 58-68: shortcode_to_emoji(text), reading the table d.
shortcode_to_emoji_in(d, s) == Splice(d, s, finditer(s, 1), 1)

(***************************************************************************)
(* str.replace and emoji_to_shortcode.                                     *)
(***************************************************************************)
\* s[i:i+len(old)] == old
OccursAt(s, old, i) ==
    /\ i + Len(old) - 1 <= Len(s)
    /\ SubSeq(s, i, i + Len(old) - 1) = old

\* s.replace(old, new) for a non-empty old, from index i on: the
\* occurrences of old are taken left to right, without overlap.
RECURSIVE ReplaceFrom(_, _, _, _)
ReplaceFrom(s, old, new, i) ==
    IF i > Len(s) THEN << >>
    ELSE IF OccursAt(s, old, i)
         THEN new \o ReplaceFrom(s, old, new, i + Len(old))
         ELSE << s[i] >> \o ReplaceFrom(s, old, new, i + 1)

\* Variant: s.replace(old, new, 1), the first occurrence only.
RECURSIVE ReplaceFirstFrom(_, _, _, _)
ReplaceFirstFrom(s, old, new, i) ==
    IF i > Len(s) THEN << >>
    ELSE IF OccursAt(s, old, i)
         THEN new \o SubSeq(s, i + Len(old), Len(s))
         ELSE << s[i] >> \o ReplaceFirstFrom(s, old, new, i + 1)

str_replace_first(s, old, new) == ReplaceFirstFrom(s, old, new, 1)

str_replace(s, old, new) == ReplaceFrom(s, old, new, 1)

\* f":{code}:"
Wrap(code) == << Colon >> \o code \o << Colon >>

\* Line 79, one iteration of the loop for the item << emo, code >>.
LoopBody(res, item) == str_replace(res, item[1], Wrap(item[2]))

\* Variant: every iteration replaces in the argument, text.replace(...), not
\* in the running result.
LoopFromText(r, s, n) ==
    IF n = 0 THEN s ELSE LoopBody(s, r[n])

\* Lines 77-80 for the first n items of the index r.
RECURSIVE LoopUpTo(_, _, _)
LoopUpTo(r, s, n) ==
    IF n = 0 THEN s ELSE LoopBody(LoopUpTo(r, s, n - 1), r[n])

\* Lines 71-80: emoji_to_shortcode(text), reading the index r.
emoji_to_shortcode_in(r, s) == LoopUpTo(r, s, Len(r))

(***************************************************************************)
(* sorted() on str, list_shortcodes, random_emoji.                         *)
(***************************************************************************)
\* a < b for two str that agree before index i: the first differing code
\* point decides, a proper prefix is smaller.
RECURSIVE StrLessFrom(_, _, _)
StrLessFrom(a, b, i) ==
    IF i > Len(b) THEN FALSE
    ELSE IF i > Len(a) THEN TRUE
    ELSE IF a[i] # b[i] THEN a[i] < b[i]
    ELSE StrLessFrom(a, b, i + 1)

StrLess(a, b) == StrLessFrom(a, b, 1)

\* x inserted into the ascending list l, after the elements not greater
\* than it (sorted() is stable): these are the first p elements of l.
Insert(l, x) ==
    LET p == Cardinality({ i \in 1..Len(l) : ~StrLess(x, l[i]) })
    IN  SubSeq(l, 1, p) \o << x >> \o SubSeq(l, p + 1, Len(l))

\* sorted(l) of the first n elements of l.
RECURSIVE SortUpTo(_, _)
SortUpTo(l, n) ==
    IF n = 0 THEN << >> ELSE Insert(SortUpTo(l, n - 1), l[n])

\* Variant: list(l), not sorted.
unsorted(l) == l

sorted(l) == SortUpTo(l, Len(l))

\* Lines 83-85: list_shortcodes(), reading the table d.
list_shortcodes_in(d) == sorted(Keys(d))

\* The count random_emoji takes when none is given (line 88).
DefaultCount == 1

\* Variant: the guard written count <= 1.
random_emoji_guard_le(d, n) ==
    IF n <= 1 THEN { << >> }
    ELSE LET population == Values(d)
         IN  { [i \in 1..n |-> population[draw[i]]] :
                   draw \in [1..n -> 1..Len(population)] }

\* Lines 88-92: random_emoji(count), reading the table d: the set of lists the
\* call can return, one for every outcome of random.choices' k independent
\* draws (with replacement) from list(d.values()).
random_emoji_in(d, n) ==
    IF n < 1 THEN { << >> }
    ELSE LET population == Values(d)
         IN  { [i \in 1..n |-> population[draw[i]]] :
                   draw \in [1..n -> 1..Len(population)] }

\* The functions as the program calls them: against the module globals.
shortcode_to_emoji(s) == shortcode_to_emoji_in(EMOJI_MAP, s)
emoji_to_shortcode(s) == emoji_to_shortcode_in(REVERSE_MAP, s)
list_shortcodes == list_shortcodes_in(EMOJI_MAP)
random_emoji(n) == random_emoji_in(EMOJI_MAP, n)

(***************************************************************************)
(* The inputs the callers draw from.                                       *)
(***************************************************************************)
\* Fragments of text: ":", "x" (a code), ":x:" (a known token), ":X" (the
\* start of an unknown token), " " (outside the class), U+274C (the glyph of
\* x), and the two code points U+2764 and U+FE0F that make the glyph of
\* heart only when adjacent and in this order.
Pieces ==
    { << 58 >>, << 120 >>, << 58, 120, 58 >>, << 58, 88 >>, << 32 >>,
      << 10060 >>, << 10084 >>, << 65039 >> }

\* The concatenations of at most n fragments.
RECURSIVE PieceTexts(_)
PieceTexts(n) ==
    IF n = 0 THEN { << >> }
    ELSE LET shorter == PieceTexts(n - 1)
         IN  shorter \cup { s \o p : s \in shorter, p \in Pieces }

\* "Nice :thumbsup: :fire:!"
NiceText ==
    << 78, 105, 99, 101, 32, 58, 116, 104, 117, 109, 98, 115, 117, 112, 58,
       32, 58, 102, 105, 114, 101, 58, 33 >>
\* "Nice " U+1F44D " " U+1F525 "!"
NiceEmoji == << 78, 105, 99, 101, 32, 128077, 32, 128293, 33 >>
\* "unknown :notacode: here"
UnknownText ==
    << 117, 110, 107, 110, 111, 119, 110, 32, 58, 110, 111, 116, 97, 99, 111,
       100, 101, 58, 32, 104, 101, 114, 101 >>
\* "Great " U+1F44D U+1F525
GreatEmoji == << 71, 114, 101, 97, 116, 32, 128077, 128293 >>
\* "Great :thumbsup::fire:"
GreatText ==
    << 71, 114, 101, 97, 116, 32, 58, 116, 104, 117, 109, 98, 115, 117, 112,
       58, 58, 102, 105, 114, 101, 58 >>
\* ":smile"
SmileOpen == << 58, 115, 109, 105, 108, 101 >>
\* ":+1:" and ":a-b:", unknown tokens that use '+' and '-' of the class
PlusOne == << 58, 43, 49, 58 >>
DashToken == << 58, 97, 45, 98, 58 >>

Scenarios ==
    { NiceText, NiceEmoji, UnknownText, GreatEmoji, GreatText, SmileOpen,
      PlusOne, DashToken }

\* Every ":code:" and every glyph of the vocabulary, alone.
TokenTexts == { Wrap(EmojiMapLiteral[i][1]) : i \in 1..Len(EmojiMapLiteral) }
GlyphTexts == { EmojiMapLiteral[i][2] : i \in 1..Len(EmojiMapLiteral) }

\* ":c1::c2:" for every code c1 and the code c2 that follows it in the
\* literal, and ":X:c:" for every code c (X is no code).
AdjacentTokens ==
    { Wrap(EmojiMapLiteral[i][1])
        \o Wrap(EmojiMapLiteral[(i % Len(EmojiMapLiteral)) + 1][1]) :
      i \in 1..Len(EmojiMapLiteral) }
SharedColonTexts ==
    { << 58, 88, 58 >> \o EmojiMapLiteral[i][1] \o << 58 >> :
      i \in 1..Len(EmojiMapLiteral) }

Inputs ==
    PieceTexts(MaxPieces) \cup Scenarios \cup TokenTexts \cup GlyphTexts
        \cup AdjacentTokens \cup SharedColonTexts

Counts == (0 - 1) .. MaxCount

(***************************************************************************)
(* Spec: one caller that makes up to MaxCalls calls in sequence.           *)
(***************************************************************************)
\* The one caller of Spec.
Caller == { "main" }

\* Module initialisation (lines 28-53).
InitGlobals ==
    /\ EMOJI_MAP = EmojiMapLiteral
    /\ REVERSE_MAP = ReverseOf(EMOJI_MAP)

\* The callers cs, each with its text t[c] and count n[c], before any call.
InitCallers(cs, t, n) ==
    /\ text = t
    /\ count = n
    /\ pc = [c \in cs |-> "idle"]
    /\ calls = [c \in cs |-> << >>]
    /\ arg = [c \in cs |-> << >>]
    /\ out = [c \in cs |-> << >>]
    /\ items = [c \in cs |-> << >>]
    /\ result = [c \in cs |-> << >>]
    /\ idx = [c \in cs |-> 0]

\* As on the command line (lines 150-163), the caller is given a text, for
\* its substitution calls, or no text and a count (1 when none is given).
Init ==
    /\ InitGlobals
    /\ \E t \in Inputs, n \in Counts :
          /\ n = DefaultCount \/ t = << >>
          /\ InitCallers(Caller, [c \in Caller |-> t], [c \in Caller |-> n])

IsTextCall(cmd) == cmd \in {"replace", "revert"}

\* The text the caller passes to its next substitution call: its own text
\* first, then the result of its last substitution.
Current(c) ==
    IF \E i \in 1..Len(calls[c]) : IsTextCall(calls[c][i])
    THEN out[c] ELSE text[c]

\* The caller may make one more call: it has made fewer than MaxCalls, and
\* a sampling call, whose list it keeps, was not among them.
CanCall(c) ==
    /\ pc[c] = "idle"
    /\ Len(calls[c]) < MaxCalls
    /\ \A i \in 1..Len(calls[c]) : calls[c][i] # "random"

\* out = shortcode_to_emoji(text)   (lines 175-176)
ShortcodeToEmoji(c) ==
    /\ CanCall(c)
    /\ arg' = [arg EXCEPT ![c] = Current(c)]
    /\ out' = [out EXCEPT ![c] = shortcode_to_emoji(Current(c))]
    /\ calls' = [calls EXCEPT ![c] = Append(@, "replace")]
    /\ UNCHANGED << EMOJI_MAP, REVERSE_MAP, pc, text, count, items, result, idx >>

\* out = emoji_to_shortcode(text)   (lines 179-180)
EmojiToShortcode(c) ==
    /\ CanCall(c)
    /\ arg' = [arg EXCEPT ![c] = Current(c)]
    /\ out' = [out EXCEPT ![c] = emoji_to_shortcode(Current(c))]
    /\ calls' = [calls EXCEPT ![c] = Append(@, "revert")]
    /\ UNCHANGED << EMOJI_MAP, REVERSE_MAP, pc, text, count, items, result, idx >>

\* list_shortcodes()   (line 183), by a caller without text
ListShortcodes(c) ==
    /\ CanCall(c)
    /\ text[c] = << >>
    /\ items' = [items EXCEPT ![c] = list_shortcodes]
    /\ calls' = [calls EXCEPT ![c] = Append(@, "list")]
    /\ UNCHANGED << EMOJI_MAP, REVERSE_MAP, pc, text, count, arg, out, result, idx >>

\* items = random_emoji(args.count)   (line 186), the only call of a caller
\* without text
RandomEmoji(c) ==
    /\ CanCall(c)
    /\ text[c] = << >>
    /\ calls[c] = << >>
    /\ \E r \in random_emoji(count[c]) :
          items' = [items EXCEPT ![c] = r]
    /\ calls' = [calls EXCEPT ![c] = Append(@, "random")]
    /\ UNCHANGED << EMOJI_MAP, REVERSE_MAP, pc, text, count, arg, out, result, idx >>

Next ==
    \E c \in Caller :
        \/ ShortcodeToEmoji(c)
        \/ EmojiToShortcode(c)
        \/ ListShortcodes(c)
        \/ RandomEmoji(c)

Spec == Init /\ [][Next]_vars

(***************************************************************************)
(* SpecConc: NumCallers callers (threads) that call the functions over and *)
(* over, interleaved.  emoji_to_shortcode is split at its loop iterations, *)
(* where another caller may run; a caller keeps its last call only.        *)
(***************************************************************************)
\* ":x:" U+2764 U+FE0F U+274C ":X:": a known token, the two-code-point glyph,
\* a one-code-point glyph and an unknown token
ConcText == << 58, 120, 58, 10084, 65039, 10060, 58, 88, 58 >>

ConcInputs == { ConcText }

ConcCounts == { 0, DefaultCount }

\* The callers of SpecConc.
Threads == 1..NumCallers

InitConc ==
    /\ InitGlobals
    /\ InitCallers(Threads,
                   [c \in Threads |-> << >>],
                   [c \in Threads |-> DefaultCount])

\* Variant: repl written with EMOJI_MAP.setdefault(key, match.group(0)), which
\* returns the same str and stores every unknown code of t in the table.
RECURSIVE SetDefaults(_, _, _)
SetDefaults(d, s, ms) ==
    IF ms = << >> THEN d
    ELSE LET m == SubSeq(s, Head(ms)[1], Head(ms)[2])
             key == SubSeq(m, 2, Len(m) - 1)
         IN  SetDefaults(IF HasKey(d, key) THEN d ELSE SetItem(d, key, m),
                         s, Tail(ms))

ConcShortcodeToEmojiSetDefault(c) ==
    /\ pc[c] = "idle"
    /\ \E t \in ConcInputs :
          /\ arg' = [arg EXCEPT ![c] = t]
          /\ out' = [out EXCEPT ![c] = shortcode_to_emoji(t)]
          /\ EMOJI_MAP' = SetDefaults(EMOJI_MAP, t, finditer(t, 1))
    /\ calls' = [calls EXCEPT ![c] = << "replace" >>]
    /\ items' = [items EXCEPT ![c] = << >>]
    /\ count' = [count EXCEPT ![c] = DefaultCount]
    /\ UNCHANGED << REVERSE_MAP, pc, text, result, idx >>

\* shortcode_to_emoji(t): one call to pattern.sub, which only reads EMOJI_MAP
ConcShortcodeToEmoji(c) ==
    /\ pc[c] = "idle"
    /\ \E t \in ConcInputs :
          /\ arg' = [arg EXCEPT ![c] = t]
          /\ out' = [out EXCEPT ![c] = shortcode_to_emoji(t)]
    /\ calls' = [calls EXCEPT ![c] = << "replace" >>]
    /\ items' = [items EXCEPT ![c] = << >>]
    /\ count' = [count EXCEPT ![c] = DefaultCount]
    /\ UNCHANGED << EMOJI_MAP, REVERSE_MAP, pc, text, result, idx >>

\* emoji_to_shortcode(t), line 77: result = text, and the loop is entered
RevertEnter(c) ==
    /\ pc[c] = "idle"
    /\ \E t \in ConcInputs :
          /\ arg' = [arg EXCEPT ![c] = t]
          /\ result' = [result EXCEPT ![c] = t]
    /\ idx' = [idx EXCEPT ![c] = 1]
    /\ pc' = [pc EXCEPT ![c] = "loop"]
    /\ out' = [out EXCEPT ![c] = << >>]
    /\ items' = [items EXCEPT ![c] = << >>]
    /\ calls' = [calls EXCEPT ![c] = << >>]
    /\ count' = [count EXCEPT ![c] = DefaultCount]
    /\ UNCHANGED << EMOJI_MAP, REVERSE_MAP, text >>

\* lines 78-79: one iteration, for the item of REVERSE_MAP the loop is at
RevertIter(c) ==
    /\ pc[c] = "loop"
    /\ idx[c] <= Len(REVERSE_MAP)
    /\ result' = [result EXCEPT ![c] = LoopBody(@, REVERSE_MAP[idx[c]])]
    /\ idx' = [idx EXCEPT ![c] = @ + 1]
    /\ UNCHANGED << EMOJI_MAP, REVERSE_MAP, pc, text, count, calls, arg, out, items >>

\* line 80: return result, once the items are exhausted
RevertReturn(c) ==
    /\ pc[c] = "loop"
    /\ idx[c] > Len(REVERSE_MAP)
    /\ out' = [out EXCEPT ![c] = result[c]]
    /\ calls' = [calls EXCEPT ![c] = << "revert" >>]
    /\ pc' = [pc EXCEPT ![c] = "idle"]
    /\ result' = [result EXCEPT ![c] = << >>]
    /\ idx' = [idx EXCEPT ![c] = 0]
    /\ UNCHANGED << EMOJI_MAP, REVERSE_MAP, text, count, arg, items >>

\* list_shortcodes()
ConcListShortcodes(c) ==
    /\ pc[c] = "idle"
    /\ items' = [items EXCEPT ![c] = list_shortcodes]
    /\ calls' = [calls EXCEPT ![c] = << "list" >>]
    /\ arg' = [arg EXCEPT ![c] = << >>]
    /\ out' = [out EXCEPT ![c] = << >>]
    /\ count' = [count EXCEPT ![c] = DefaultCount]
    /\ UNCHANGED << EMOJI_MAP, REVERSE_MAP, pc, text, result, idx >>

\* print(" ".join(random_emoji(n)))   (lines 186-187): the sample is read
\* from EMOJI_MAP and printed, the caller does not keep it
ConcRandomEmoji(c) ==
    /\ pc[c] = "idle"
    /\ \E n \in ConcCounts :
          /\ count' = [count EXCEPT ![c] = n]
          /\ \E r \in random_emoji(n) : Len(r) >= 0
    /\ items' = [items EXCEPT ![c] = << >>]
    /\ calls' = [calls EXCEPT ![c] = << "random" >>]
    /\ arg' = [arg EXCEPT ![c] = << >>]
    /\ out' = [out EXCEPT ![c] = << >>]
    /\ UNCHANGED << EMOJI_MAP, REVERSE_MAP, pc, text, result, idx >>

NextConc ==
    \E c \in Threads :
        \/ ConcShortcodeToEmoji(c)
        \/ RevertEnter(c)
        \/ RevertIter(c)
        \/ RevertReturn(c)
        \/ ConcListShortcodes(c)
        \/ ConcRandomEmoji(c)

SpecConc == InitConc /\ [][NextConc]_vars

(***************************************************************************)
(* Vocabulary of the claims: the table as a set of pairs, the token        *)
(* grammar and the lexicographic order, stated without the algorithms.     *)
(***************************************************************************)
Vocabulary == { EmojiMapLiteral[i] : i \in 1..Len(EmojiMapLiteral) }
Codes == { e[1] : e \in Vocabulary }
Glyphs == { e[2] : e \in Vocabulary }
GlyphOf(code) == CHOOSE g \in Glyphs : << code, g >> \in Vocabulary
CodeOf(g) == CHOOSE code \in Codes : << code, g >> \in Vocabulary

Token(code) == << 58 >> \o code \o << 58 >>

CodeAlphabet == (48..57) \cup (65..90) \cup (97..122) \cup {43, 45, 95}

Chars(s) == { s[i] : i \in 1..Len(s) }

\* t occurs in s at index i; t occurs in s
At(s, t, i) == i >= 1 /\ i + Len(t) - 1 <= Len(s) /\ SubSeq(s, i, i + Len(t) - 1) = t
Contains(s, t) == \E i \in 1..Len(s) : At(s, t, i)

\* The concatenation of a sequence of str.
RECURSIVE Flatten(_)
Flatten(ss) == IF ss = << >> THEN << >> ELSE Head(ss) \o Flatten(Tail(ss))

\* The spans << i, j >> of s that the token grammar describes: a colon at i,
\* a colon at j, and one or more characters of the alphabet between them.
TokenSpans(s) ==
    { sp \in (1..Len(s)) \X (1..Len(s)) :
         /\ sp[2] > sp[1] + 1
         /\ s[sp[1]] = 58 /\ s[sp[2]] = 58
         /\ \A k \in (sp[1] + 1)..(sp[2] - 1) : s[k] \in CodeAlphabet }

\* The spans a left-to-right scan without overlap takes: no two of them share
\* a colon, and a token span that is not taken opens with the colon that
\* closes a taken one.  (Two token spans can only overlap in one colon, and
\* the first span of a chain has nothing before it, so the set is unique.)
TakenSpans(s) ==
    LET T == TokenSpans(s)
    IN  CHOOSE S \in SUBSET T :
           /\ \A a \in S, b \in S : a # b => a[2] # b[1]
           /\ \A t \in T \ S : \E a \in S : a[2] = t[1]

Inner(s, sp) == SubSeq(s, sp[1] + 1, sp[2] - 1)

\* What forward substitution is to return for s: position by position, the
\* opening colon of a taken span with a known code gives the glyph, the rest
\* of that span gives nothing, every other character gives itself.
ExpectedForward(s) ==
    LET K == { sp \in TakenSpans(s) : Inner(s, sp) \in Codes }
        piece(k) ==
            IF \E sp \in K : sp[1] = k
            THEN GlyphOf(Inner(s, CHOOSE sp \in K : sp[1] = k))
            ELSE IF \E sp \in K : sp[1] < k /\ k <= sp[2]
                 THEN << >>
                 ELSE << s[k] >>
    IN  Flatten([k \in 1..Len(s) |-> piece(k)])

\* What reverse substitution is to return for s: position by position, the
\* first code point of an occurrence of a glyph gives ":code:", the rest of
\* the occurrence gives nothing, every other character gives itself.
ExpectedReverse(s) ==
    LET piece(k) ==
            IF \E g \in Glyphs : At(s, g, k)
            THEN Token(CodeOf(CHOOSE g \in Glyphs : At(s, g, k)))
            ELSE IF \E g \in Glyphs : \E j \in 1..(k - 1) :
                        At(s, g, j) /\ k <= j + Len(g) - 1
                 THEN << >>
                 ELSE << s[k] >>
    IN  Flatten([k \in 1..Len(s) |-> piece(k)])

\* a < b in the lexicographic order of code points
LexLess(a, b) ==
    \E k \in 1..(Len(b)) :
        /\ k <= Len(a) + 1
        /\ \A i \in 1..(k - 1) : a[i] = b[i]
        /\ k = Len(a) + 1 \/ a[k] < b[k]

\* The last call of caller c is cmd.
Did(c, cmd) == calls[c] # << >> /\ calls[c][Len(calls[c])] = cmd

\* The substitution calls of caller c, oldest first.
TextCalls(c) == SelectSeq(calls[c], IsTextCall)

\* The last substitution call of caller c is cmd (arg[c] and out[c] are its
\* argument and its result).
LastTextIs(c, cmd) ==
    LET tc == TextCalls(c) IN tc # << >> /\ tc[Len(tc)] = cmd

(***************************************************************************)
(* The claims.                                                             *)
(***************************************************************************)

\* C1: shortcode_to_emoji returns its argument with every token the grammar
\* matches (taken left to right, without overlap) whose code is a key of the
\* table replaced, colons included, by the code's glyph; a matched token with
\* another code and all text outside the matches are returned as written, in
\* order.  Empty input gives empty output and ":smile" is unchanged.
C1_ForwardSubstitution ==
    \A c \in DOMAIN pc :
        LastTextIs(c, "replace") =>
            /\ out[c] = ExpectedForward(arg[c])
            /\ arg[c] = << >> => out[c] = << >>
            /\ arg[c] = SmileOpen => out[c] = SmileOpen

\* "Nice :thumbsup: :fire:!" has been turned into "Nice 👍 🔥!".
C1_Witness ==
    \E c \in DOMAIN pc :
        LastTextIs(c, "replace") /\ arg[c] = NiceText /\ out[c] = NiceEmoji

\* C2: for every code c of the table, shortcode_to_emoji(":c:") is the glyph
\* of c and emoji_to_shortcode of that result is ":c:" again.
C2_RoundTrip ==
    \A c \in DOMAIN pc : \A code \in Codes :
        (TextCalls(c) = << "replace", "revert" >> /\ text[c] = Token(code)) =>
            /\ arg[c] = GlyphOf(code)
            /\ out[c] = text[c]

\* ":heart:" went to the two code points U+2764 U+FE0F and back.
C2_Witness ==
    \E c \in DOMAIN pc :
        /\ TextCalls(c) = << "replace", "revert" >>
        /\ text[c] = Token(<< 104, 101, 97, 114, 116 >>)
        /\ arg[c] = << 10084, 65039 >>
        /\ out[c] = text[c]

\* C3: emoji_to_shortcode returns its argument with every occurrence of a
\* glyph of the table replaced by ":" + the glyph's code + ":" and every
\* other character kept, in order; no glyph of the table occurs in the result.
C3_ReverseSubstitution ==
    \A c \in DOMAIN pc :
        LastTextIs(c, "revert") =>
            /\ out[c] = ExpectedReverse(arg[c])
            /\ \A g \in Glyphs : ~Contains(out[c], g)

\* "Great 👍🔥" has been turned into "Great :thumbsup::fire:".
C3_Witness ==
    \E c \in DOMAIN pc :
        LastTextIs(c, "revert") /\ arg[c] = GreatEmoji /\ out[c] = GreatText

\* C4: shortcode_to_emoji returns s itself when no ":code:" with a code of
\* the table occurs in s, and emoji_to_shortcode returns s itself when no
\* glyph of the table occurs in s.
C4_IdentityOnUnknowns ==
    \A c \in DOMAIN pc :
        /\ ( /\ LastTextIs(c, "replace")
             /\ \A code \in Codes : ~Contains(arg[c], Token(code)) )
           => out[c] = arg[c]
        /\ ( /\ LastTextIs(c, "revert")
             /\ \A g \in Glyphs : ~Contains(arg[c], g) )
           => out[c] = arg[c]

\* ":X:" U+2764 (an unknown token, and the first code point of the heart glyph
\* without the second) went through both functions unchanged.
C4_Witness ==
    \E c \in DOMAIN pc :
        /\ TextCalls(c) = << "replace", "revert" >>
        /\ text[c] = << 58, 88, 58, 10084 >>
        /\ arg[c] = text[c]
        /\ out[c] = text[c]

\* C5: random_emoji(n) returns for every n (it has no failing path): the
\* empty list when n < 1, else a list of exactly n elements, each a glyph of
\* the table, whatever the draws are.
C5_RandomEmoji ==
    \A c \in DOMAIN pc :
        /\ (text[c] = << >> /\ calls[c] = << >>) => ENABLED RandomEmoji(c)
        /\ Did(c, "random") =>
              /\ Len(items[c]) = IF count[c] < 1 THEN 0 ELSE count[c]
              /\ \A i \in 1..Len(items[c]) : items[c][i] \in Glyphs

\* Two draws gave the same glyph twice.
C5_Witness ==
    \E c \in DOMAIN pc :
        /\ Did(c, "random")
        /\ count[c] = 2
        /\ Len(items[c]) = 2
        /\ items[c][1] = items[c][2]

\* C6: list_shortcodes() returns the codes of the table, each once, in
\* strictly ascending lexicographic order: 21 entries, "100" first, on every
\* call.
C6_ListShortcodes ==
    \A c \in DOMAIN pc :
        Did(c, "list") =>
            /\ Len(items[c]) = 21
            /\ items[c][1] = << 49, 48, 48 >>
            /\ { items[c][i] : i \in 1..Len(items[c]) } = Codes
            /\ \A i \in 1..(Len(items[c]) - 1) :
                  LexLess(items[c][i], items[c][i + 1])

\* A second listing in a row returned "100" first and "x" last.
C6_Witness ==
    \E c \in DOMAIN pc :
        /\ Len(calls[c]) >= 2
        /\ calls[c][Len(calls[c]) - 1] = "list"
        /\ Did(c, "list")
        /\ items[c][1] = << 49, 48, 48 >>
        /\ items[c][21] = << 120 >>

\* C7: whatever calls the callers have made and are making, interleaved,
\* EMOJI_MAP and REVERSE_MAP have their initial values, and the result of
\* every completed substitution or enumeration call is the one the function
\* gives on the initial tables.
C7_TablesReadOnly ==
    /\ EMOJI_MAP = EmojiMapLiteral
    /\ REVERSE_MAP = ReverseOf(EmojiMapLiteral)
    /\ \A c \in DOMAIN pc :
          /\ Did(c, "replace") =>
                out[c] = shortcode_to_emoji_in(EmojiMapLiteral, arg[c])
          /\ Did(c, "revert") =>
                out[c] = emoji_to_shortcode_in(ReverseOf(EmojiMapLiteral), arg[c])
          /\ Did(c, "list") =>
                items[c] = list_shortcodes_in(EmojiMapLiteral)

\* One caller is inside the loop of emoji_to_shortcode, part of its text
\* rewritten, while another caller has completed an emoji_to_shortcode call.
C7_Witness ==
    \E c \in DOMAIN pc : \E d \in DOMAIN pc :
        /\ c # d
        /\ pc[c] = "loop" /\ idx[c] > 1 /\ result[c] # arg[c]
        /\ Did(d, "revert") /\ out[d] # arg[d]

\* C8: the matches of the pattern are token spans found left to right that
\* never share a colon, and a token span that is not matched opens with the
\* closing colon of a match.  So ":c1::c2:" with two known codes becomes the
\* two glyphs, and ":u:c:" with u unknown and c known is returned unchanged.
C8_NoOverlap ==
    \A c \in DOMAIN pc :
        LastTextIs(c, "replace") =>
            LET s == arg[c]
                n == Len(s)
                M == finditer(s, 1)
            IN  /\ \A k \in 1..Len(M) : M[k] \in TokenSpans(s)
                /\ \A k \in 1..(Len(M) - 1) : M[k][2] < M[k + 1][1]
                /\ \A t \in TokenSpans(s) :
                      \/ \E k \in 1..Len(M) : M[k] = t
                      \/ \E k \in 1..Len(M) : M[k][2] = t[1]
                /\ \A j \in 3..(n - 3) :
                      ( /\ s[1] = 58 /\ s[j] = 58 /\ s[j + 1] = 58 /\ s[n] = 58
                        /\ SubSeq(s, 2, j - 1) \in Codes
                        /\ SubSeq(s, j + 2, n - 1) \in Codes )
                      => out[c] = GlyphOf(SubSeq(s, 2, j - 1))
                                    \o GlyphOf(SubSeq(s, j + 2, n - 1))
                /\ \A j \in 3..(n - 2) :
                      ( /\ s[1] = 58 /\ s[j] = 58 /\ s[n] = 58
                        /\ Chars(SubSeq(s, 2, j - 1)) \subseteq CodeAlphabet
                        /\ SubSeq(s, 2, j - 1) \notin Codes
                        /\ SubSeq(s, j + 1, n - 1) \in Codes )
                      => out[c] = s

\* ":X:heart:" was returned unchanged: the colon that closes ":X:" is not
\* taken again to open ":heart:".
C8_Witness ==
    \E c \in DOMAIN pc :
        /\ LastTextIs(c, "replace")
        /\ arg[c] = << 58, 88, 58, 104, 101, 97, 114, 116, 58 >>
        /\ out[c] = arg[c]

\* C9: for a text t without ':', shortcode_to_emoji(emoji_to_shortcode(t))
\* is t.
C9_ReverseThenForward ==
    \A c \in DOMAIN pc :
        (TextCalls(c) = << "revert", "replace" >> /\ 58 \notin Chars(text[c]))
            => out[c] = text[c]

\* U+274C "x" U+274C went to ":x:x:x:" and back.
C9_Witness ==
    \E c \in DOMAIN pc :
        /\ TextCalls(c) = << "revert", "replace" >>
        /\ text[c] = << 10060, 120, 10060 >>
        /\ arg[c] = << 58, 120, 58, 120, 58, 120, 58 >>
        /\ out[c] = text[c]

\* The orders of the items of the index that C10 compares with the order of
\* the table: reversed, and every rotation (each item is first in one of
\* them and last in another).
Reversed(r) == [i \in 1..Len(r) |-> r[Len(r) + 1 - i]]
Rotated(r, k) == [i \in 1..Len(r) |-> r[((i + k - 1) % Len(r)) + 1]]
OtherOrders(r) == { Reversed(r) } \cup { Rotated(r, k) : k \in 1..(Len(r) - 1) }

\* C10: once the module is initialised (before any call, whatever the caller
\* then passes: the tables are the same in every state) REVERSE_MAP has 21 items and maps the
\* glyph of every code to that code, no glyph occurs in another glyph, no
\* glyph holds a ':' and none occurs in a ":code:"; emoji_to_shortcode of the
\* caller's text is the same str when the items are processed in another
\* order, and emoji_to_shortcode of a result of emoji_to_shortcode is that
\* result.
C10_OrderNotObservable ==
    /\ (\A c \in DOMAIN pc : calls[c] = << >> /\ text[c] = << >>) =>
          /\ Len(REVERSE_MAP) = 21
          /\ \A i \in 1..Len(EMOJI_MAP) :
                Get(REVERSE_MAP, EMOJI_MAP[i][2], << >>) = EMOJI_MAP[i][1]
          /\ \A i \in 1..Len(REVERSE_MAP) : \A j \in 1..Len(REVERSE_MAP) :
                /\ i # j => ~Contains(REVERSE_MAP[j][1], REVERSE_MAP[i][1])
                /\ 58 \notin Chars(REVERSE_MAP[i][1])
                /\ ~Contains(Token(REVERSE_MAP[j][2]), REVERSE_MAP[i][1])
    /\ \A c \in DOMAIN pc :
          LET tc == TextCalls(c)
          IN  /\ tc = << "revert" >> =>
                    \A r \in OtherOrders(REVERSE_MAP) :
                        emoji_to_shortcode_in(r, text[c]) = out[c]
              /\ ( /\ Len(tc) >= 2
                   /\ tc[Len(tc)] = "revert"
                   /\ tc[Len(tc) - 1] = "revert" )
                 => out[c] = arg[c]

\* U+2764 U+FE0F U+274C went to ":heart::x:", and a second emoji_to_shortcode
\* returned that unchanged.
C10_Witness ==
    \E c \in DOMAIN pc :
        /\ TextCalls(c) = << "revert", "revert" >>
        /\ text[c] = << 10084, 65039, 10060 >>
        /\ arg[c] = << 58, 104, 101, 97, 114, 116, 58, 58, 120, 58 >>
        /\ out[c] = arg[c]

=============================================================================
